---- MODULE Spec2Model ----
(***************************************************************************)
(* State-machine model of the authentication / session / credit pipeline  *)
(* of the assistant API: the user_settings table and its stored           *)
(* procedures (tools/database.py), the SupabaseClient wrappers            *)
(* (tools/supabase_tools.py), the in-memory SessionManager                 *)
(* (tools/session_manager.py) and the request handlers of api.py.          *)
(*                                                                         *)
(* Time is one clock `now`, counted in minutes.  CURRENT_DATE is the day   *)
(* number of `now`.  Every statement sent to the database is one atomic    *)
(* step (PostgreSQL READ COMMITTED: each statement of a plpgsql function   *)
(* sees its own snapshot and a plain SELECT takes no row lock), so a       *)
(* stored procedure made of a SELECT followed by an UPDATE is two steps.   *)
(***************************************************************************)
EXTENDS Integers, FiniteSets, Sequences, TLC

(***************************************************************************)
(* Bounds of the model                                                     *)
(***************************************************************************)
NProcs == 2
MaxCalls == 2
MaxTicks == 1
MaxSessionTicks == 2
MaxDateTokens == 2

Procs == 1..NProcs
Users == {"u1", "u2"}
Chans == {"c1", "c2"}
NoChan == "none"
NoUser == "none"

(***************************************************************************)
(* Program constants                                                       *)
(***************************************************************************)
DefaultCredits == 50
ResetCredits == 20
ResetPeriodDays == 30
SessionTimeout == 30
TextMessageCost == 1
ReceiptCost == 5
BankStatementCost == 0
NULL == -1
MinutesPerDay == 24 * 60

\* credits_needed values handed to consume: a free operation, the receipt cost
\* and one amount larger than any balance
HugeNeed == DefaultCredits + 10
Needs == {BankStatementCost, ReceiptCost, HugeNeed}

VARIABLES
    user_settings,   \* the user_settings table: user_id -> row
    now,             \* the clock, in minutes
    ticks,           \* number of clock advances so far (bounds the run)
    ncalls,          \* number of requests started so far (bounds the run)
    calls,           \* per request task: the operation in flight and its locals
    sessions,        \* SessionManager.sessions: telegram_id -> session dict
    ret,             \* value returned by the last direct SessionManager call
    transactions,    \* number of rows persisted per user_id (transactions/reminders)
    extractor_calls, \* number of Extractor (LLM) invocations so far
    payments         \* the payments table: payment id -> row

vars == <<user_settings, now, ticks, ncalls, calls, sessions, ret,
          transactions, extractor_calls, payments>>

CURRENT_DATE == now \div MinutesPerDay

(***************************************************************************)
(* Records                                                                 *)
(***************************************************************************)
NoResult ==
    [success |-> FALSE, is_premium |-> FALSE, credits_used |-> 0,
     credits_remaining |-> 0, error |-> "none",
     credits_available |-> 0, credits_needed |-> 0]

IdleCall ==
    [op |-> "none", pc |-> "idle", chan |-> NoChan, user_id |-> NoUser,
     need |-> 0, current_credits |-> 0, result |-> NoResult,
     credit_result |-> NoResult,
     status |-> 0, detail |-> "none",
     resolved |-> FALSE, consumed |-> FALSE, extracted |-> FALSE,
     persisted |-> FALSE, frame |-> "none",
     claimed |-> NoUser, success |-> FALSE, auth_message |-> "none",
     must_register |-> FALSE, lookups |-> 0, fault |-> "none",
     repeat |-> FALSE, affected_users |-> 0, today |-> 0,
     signature |-> "none", secret |-> FALSE, event |-> "none",
     payment_id |-> "none", response |-> << >>, handler |-> "none",
     date_str |-> << >>, timezone |-> 0, server_offset |-> 0,
     due |-> [found |-> FALSE, raised |-> FALSE, wall |-> 0,
              tzinfo |-> "none"]]

\* a row inserted with only user_id / telegram_id / premium columns given
NewRow(tg, prem, until) ==
    [telegram_id |-> tg, is_premium |-> prem, premium_until |-> until,
     freemium_credits |-> DefaultCredits,
     credits_reset_date |-> CURRENT_DATE + ResetPeriodDays,
     last_bot_interaction |-> now]

(***************************************************************************)
(* SessionManager (tools/session_manager.py)                               *)
(***************************************************************************)
\* the user_data dicts handed to create_session: which user, whether email and
\* first_name are present, and the premium / credits snapshot
UserData(uid, email, first_name, prem, credits) ==
    [user_id |-> uid, email |-> email, first_name |-> first_name,
     is_premium |-> prem, freemium_credits |-> credits,
     authenticated |-> TRUE, last_activity |-> 0]

NoSession == UserData(NoUser, FALSE, FALSE, FALSE, 0)

NoRet == [op |-> "none", chan |-> NoChan, found |-> FALSE,
          evicted |-> FALSE, session |-> NoSession]

Remove(ss, c) == [k \in DOMAIN ss \ {c} |-> ss[k]]

Put(ss, c, v) == [k \in DOMAIN ss \cup {c} |-> IF k = c THEN v ELSE ss[k]]

\* (variant: the comparison written with >=)
ExpiredGe(session, t) == t - session.last_activity >= SessionTimeout

\* datetime.now() - session['last_activity'] > self.session_timeout
Expired(session, t) == t - session.last_activity > SessionTimeout

\* get_session: whether a session is returned
GetSessionFound(ss, c, t) == c \in DOMAIN ss /\ ~Expired(ss[c], t)

\* (variant: a hit that does not touch last_activity)
GetSessionMapNoRefresh(ss, c, t) ==
    IF c \notin DOMAIN ss THEN ss
    ELSE IF Expired(ss[c], t) THEN Remove(ss, c)
    ELSE ss

\* get_session: the sessions dict it leaves
GetSessionMap(ss, c, t) ==
    IF c \notin DOMAIN ss THEN ss
    ELSE IF Expired(ss[c], t) THEN Remove(ss, c)
    ELSE [ss EXCEPT ![c].last_activity = t]

\* create_session: {**user_data, 'last_activity': now, 'authenticated': True}
CreateSessionMap(ss, c, user_data, t) ==
    Put(ss, c, [user_data EXCEPT !.last_activity = t, !.authenticated = TRUE])

\* (variant: the sweep's comparison written with >=)
CleanupMapGe(ss, t) == [k \in {c \in DOMAIN ss : ~ExpiredGe(ss[c], t)} |-> ss[k]]

\* the sessions the sweep leaves
CleanupMap(ss, t) == [k \in {c \in DOMAIN ss : ~Expired(ss[c], t)} |-> ss[k]]

create_session(c, user_data) ==
    /\ sessions' = CreateSessionMap(sessions, c, user_data, now)
    /\ ret' = [NoRet EXCEPT !.op = "create_session", !.chan = c]
    /\ UNCHANGED <<user_settings, now, ticks, ncalls, calls, transactions,
                   extractor_calls, payments>>

get_session(c) ==
    /\ sessions' = GetSessionMap(sessions, c, now)
    /\ ret' = [NoRet EXCEPT
                 !.op = "get_session", !.chan = c,
                 !.found = GetSessionFound(sessions, c, now),
                 !.evicted = (c \in DOMAIN sessions /\ c \notin DOMAIN sessions'),
                 !.session = IF GetSessionFound(sessions, c, now)
                             THEN sessions'[c] ELSE NoSession]
    /\ UNCHANGED <<user_settings, now, ticks, ncalls, calls, transactions,
                   extractor_calls, payments>>

is_authenticated(c) ==
    /\ sessions' = GetSessionMap(sessions, c, now)
    /\ ret' = [NoRet EXCEPT
                 !.op = "is_authenticated", !.chan = c,
                 !.found = /\ GetSessionFound(sessions, c, now)
                           /\ sessions[c].authenticated,
                 !.evicted = (c \in DOMAIN sessions /\ c \notin DOMAIN sessions')]
    /\ UNCHANGED <<user_settings, now, ticks, ncalls, calls, transactions,
                   extractor_calls, payments>>

invalidate_session(c) ==
    /\ c \in DOMAIN sessions
    /\ sessions' = Remove(sessions, c)
    /\ ret' = [NoRet EXCEPT !.op = "invalidate_session", !.chan = c]
    /\ UNCHANGED <<user_settings, now, ticks, ncalls, calls, transactions,
                   extractor_calls, payments>>

\* one pass of the _cleanup_expired_sessions loop
cleanup_expired_sessions ==
    /\ sessions' = CleanupMap(sessions, now)
    /\ sessions' # sessions
    /\ ret' = [NoRet EXCEPT !.op = "cleanup"]
    /\ UNCHANGED <<user_settings, now, ticks, ncalls, calls, transactions,
                   extractor_calls, payments>>

(***************************************************************************)
(* consume_freemium_credits                                                *)
(***************************************************************************)
\* (variant: the comparison written with <=)
InsufficientCreditsLe(current_credits, need) == current_credits <= need

\* IF current_credits < p_credits_needed
InsufficientCredits(current_credits, need) == current_credits < need

\* (variant: one credit too many taken)
CreditsAfterOffByOne(current_credits, need) == current_credits - need - 1

\* credits_after := current_credits - p_credits_needed
CreditsAfter(current_credits, need) == current_credits - need

\* CHECK (freemium_credits >= 0) of the column
CreditsCheck(v) == v >= 0

\* (variant: the balance test placed before the premium test)
ConsumeBranchPremiumLast(tbl, uid, need) ==
    IF uid \notin DOMAIN tbl THEN "user_not_found"
    ELSE IF InsufficientCredits(tbl[uid].freemium_credits, need)
         THEN "insufficient_credits"
    ELSE IF tbl[uid].is_premium THEN "premium"
    ELSE "consume"

\* (variant: the decision taken on the snapshot in the user's session when there
\* is one)
ConsumeBranchCached(tbl, uid, need) ==
    LET cached == {c \in DOMAIN sessions : sessions[c].user_id = uid}
    IN IF uid \notin DOMAIN tbl THEN "user_not_found"
       ELSE IF cached = {}
       THEN IF tbl[uid].is_premium THEN "premium"
            ELSE IF InsufficientCredits(tbl[uid].freemium_credits, need)
                 THEN "insufficient_credits"
            ELSE "consume"
       ELSE LET s == sessions[CHOOSE c \in cached : TRUE]
            IN IF s.is_premium THEN "premium"
               ELSE IF InsufficientCredits(s.freemium_credits, need)
                    THEN "insufficient_credits"
               ELSE "consume"

\* the branch the procedure takes on the row it selected
ConsumeBranch(tbl, uid, need) ==
    IF uid \notin DOMAIN tbl THEN "user_not_found"
    ELSE IF tbl[uid].is_premium THEN "premium"
    ELSE IF InsufficientCredits(tbl[uid].freemium_credits, need)
         THEN "insufficient_credits"
    ELSE "consume"

UserNotFoundResult == [NoResult EXCEPT !.error = "user_not_found"]

PremiumResult ==
    [NoResult EXCEPT !.success = TRUE, !.is_premium = TRUE,
                     !.credits_used = 0, !.credits_remaining = -1]

InsufficientResult(current_credits, need) ==
    [NoResult EXCEPT !.error = "insufficient_credits",
                     !.credits_available = current_credits,
                     !.credits_needed = need]

ConsumedResult(need, credits_after) ==
    [NoResult EXCEPT !.success = TRUE, !.is_premium = FALSE,
                     !.credits_used = need,
                     !.credits_remaining = credits_after]

\* (variant: a relative decrement of the stored value, with no column CHECK)
ConsumeWriteRelative(tbl, uid, current_credits, need) ==
    [tbl EXCEPT ![uid].freemium_credits = tbl[uid].freemium_credits - need]

\* UPDATE user_settings SET freemium_credits = credits_after WHERE user_id = ...
\* (a value that fails the column CHECK aborts the statement)

ConsumeWrite(tbl, uid, current_credits, need) ==
    IF uid \in DOMAIN tbl /\ CreditsCheck(CreditsAfter(current_credits, need))
    THEN [tbl EXCEPT ![uid].freemium_credits = CreditsAfter(current_credits, need)]
    ELSE tbl

\* A task calls SupabaseClient.consume_credits(user_id, op, credits_needed)
StartConsume(p, u, k) ==
    /\ calls[p].pc = "idle"
    /\ ncalls < MaxCalls
    /\ ncalls' = ncalls + 1
    /\ calls' = [calls EXCEPT ![p] =
                    [IdleCall EXCEPT !.op = "consume", !.pc = "select",
                                     !.user_id = u, !.need = k,
                                     !.consumed = TRUE]]
    /\ UNCHANGED <<user_settings, now, ticks, sessions, ret, transactions,
                   extractor_calls, payments>>

\* SELECT freemium_credits, is_premium INTO ... and the three early RETURNs
ConsumeSelect(p) ==
    /\ calls[p].pc = "select"
    /\ LET c == calls[p]
           branch == ConsumeBranch(user_settings, c.user_id, c.need)
       IN calls' = [calls EXCEPT ![p] =
            CASE branch = "user_not_found" ->
                    [c EXCEPT !.pc = "credited", !.result = UserNotFoundResult]
              [] branch = "premium" ->
                    [c EXCEPT !.pc = "credited", !.result = PremiumResult]
              [] branch = "insufficient_credits" ->
                    [c EXCEPT !.pc = "credited",
                              !.current_credits =
                                  user_settings[c.user_id].freemium_credits,
                              !.result = InsufficientResult(
                                  user_settings[c.user_id].freemium_credits,
                                  c.need)]
              [] OTHER ->
                    [c EXCEPT !.pc = "update",
                              !.current_credits =
                                  user_settings[c.user_id].freemium_credits]]
    /\ UNCHANGED <<user_settings, now, ticks, ncalls, sessions, ret,
                   transactions, extractor_calls, payments>>

\* credits_after := ...; UPDATE user_settings ...; RETURN success
ConsumeUpdate(p) ==
    /\ calls[p].pc = "update"
    /\ LET c == calls[p]
           after == CreditsAfter(c.current_credits, c.need)
       IN /\ user_settings' =
                ConsumeWrite(user_settings, c.user_id, c.current_credits, c.need)
          /\ calls' = [calls EXCEPT ![p] =
                IF CreditsCheck(after)
                THEN [c EXCEPT !.pc = "credited",
                               !.result = ConsumedResult(c.need, after)]
                ELSE [c EXCEPT !.pc = "done", !.status = 500,
                               !.detail = "Internal server error"]]
    /\ UNCHANGED <<now, ticks, ncalls, sessions, ret, transactions,
                   extractor_calls, payments>>

\* consume_credits returns json.loads(result) to its caller
ConsumeReturn(p) ==
    /\ calls[p].pc = "credited"
    /\ calls[p].op = "consume"
    /\ calls' = [calls EXCEPT ![p] = IdleCall]
    /\ UNCHANGED <<user_settings, now, ticks, ncalls, sessions, ret,
                   transactions, extractor_calls, payments>>

(***************************************************************************)
(* Other writers of user_settings                                          *)
(***************************************************************************)
\* reset_monthly_credits(): one UPDATE over all rows
\* (variant: the SET clause without credits_reset_date)
ResetRowKeepDate(row, today) ==
    IF row.is_premium = FALSE /\ row.credits_reset_date < today
    THEN [row EXCEPT !.freemium_credits = ResetCredits]
    ELSE row

\* (variant: the WHERE clause without is_premium = FALSE)
ResetRowAnyTier(row, today) ==
    IF row.credits_reset_date < today
    THEN [row EXCEPT !.freemium_credits = ResetCredits,
                     !.credits_reset_date = today + ResetPeriodDays]
    ELSE row

ResetRow(row, today) ==
    IF row.is_premium = FALSE /\ row.credits_reset_date < today
    THEN [row EXCEPT !.freemium_credits = ResetCredits,
                     !.credits_reset_date = today + ResetPeriodDays]
    ELSE row

reset_monthly_credits ==
    /\ user_settings' =
          [u \in DOMAIN user_settings |-> ResetRow(user_settings[u], CURRENT_DATE)]
    /\ user_settings' # user_settings
    /\ UNCHANGED <<now, ticks, ncalls, calls, sessions, ret, transactions,
                   extractor_calls, payments>>

\* a row that is a function over DOMAIN tbl plus uid
Upsert(tbl, uid, row) ==
    [u \in DOMAIN tbl \cup {uid} |-> IF u = uid THEN row ELSE tbl[u]]

\* telegram_id TEXT UNIQUE
TelegramIdFree(tbl, uid, tg) ==
    \A u \in DOMAIN tbl : u # uid => tbl[u].telegram_id # tg

\* (variant: the upsert keyed on telegram_id, with no UNIQUE constraint left
\* to stop a second row taking the same telegram_id)
LinkTableNoUnique(tbl, uid, tg, row) ==
    IF uid \in DOMAIN tbl
    THEN [tbl EXCEPT ![uid].telegram_id = tg,
                     ![uid].last_bot_interaction = row.last_bot_interaction]
    ELSE Upsert(tbl, uid, row)

\* the table after SupabaseClient.link_telegram_user(supabase_user_id, telegram_id):
\* INSERT (user_id, telegram_id, last_bot_interaction) VALUES ($1, $2, NOW())
\* ON CONFLICT (user_id) DO UPDATE SET telegram_id = EXCLUDED.telegram_id,
\* last_bot_interaction = NOW(); a UNIQUE violation aborts the statement.
\* row is the row the INSERT would create
LinkTable(tbl, uid, tg, row) ==
    IF ~TelegramIdFree(tbl, uid, tg) THEN tbl
    ELSE IF uid \in DOMAIN tbl
    THEN [tbl EXCEPT ![uid].telegram_id = tg,
                     ![uid].last_bot_interaction = row.last_bot_interaction]
    ELSE Upsert(tbl, uid, row)

\* a call of SupabaseClient.link_telegram_user(uid, tg) that changes the table
link_telegram_user(uid, tg) ==
    /\ user_settings' =
          LinkTable(user_settings, uid, tg, NewRow(tg, FALSE, NULL))
    /\ user_settings' # user_settings
    /\ UNCHANGED <<now, ticks, ncalls, calls, sessions, ret, transactions,
                   extractor_calls, payments>>

\* update_payment_status(payment_id, 'success') firing payment_success_trigger
\* -> update_premium_status(): upsert is_premium = TRUE, premium_until = valid_until
\* (create_payment sets valid_until = creation time + 30 days)
payment_success(uid, valid_until) ==
    /\ user_settings' =
          IF uid \in DOMAIN user_settings
          THEN [user_settings EXCEPT ![uid].is_premium = TRUE,
                                     ![uid].premium_until = valid_until]
          ELSE Upsert(user_settings, uid, NewRow(NoChan, TRUE, valid_until))
    /\ user_settings' # user_settings
    /\ UNCHANGED <<now, ticks, ncalls, calls, sessions, ret, transactions,
                   extractor_calls, payments>>

\* the clock advances by d minutes
Tick(d) ==
    /\ ticks < MaxTicks
    /\ ticks' = ticks + 1
    /\ now' = now + d
    /\ UNCHANGED <<user_settings, ncalls, calls, sessions, ret, transactions,
                   extractor_calls, payments>>

(***************************************************************************)
(* Specification of the credit ledger: concurrent consume calls, monthly   *)
(* reset, linking and payment success against one user_settings table.     *)
(***************************************************************************)
StartNow == 2 * MinutesPerDay
PastInstant == MinutesPerDay
SoonInstant == StartNow + 10
InitCredits == {2, 10}

InitLedger ==
    /\ now = StartNow
    /\ ticks = 0
    /\ ncalls = 0
    /\ calls = [p \in Procs |-> IdleCall]
    /\ sessions = << >>
    /\ ret = NoRet
    /\ transactions = [u \in Users |-> 0]
    /\ extractor_calls = 0
    /\ payments = << >>
    /\ \E cr \in InitCredits, prem \in BOOLEAN,
          until \in {NULL, PastInstant, SoonInstant} :
          /\ (~prem => until = NULL)
          /\ user_settings = [u \in {"u1"} |->
                [telegram_id |-> "c1", is_premium |-> prem,
                 premium_until |-> until, freemium_credits |-> cr,
                 credits_reset_date |-> CURRENT_DATE + ResetPeriodDays,
                 last_bot_interaction |-> PastInstant]]

NextLedger ==
    \/ \E p \in Procs, u \in Users, k \in Needs : StartConsume(p, u, k)
    \/ \E p \in Procs : ConsumeSelect(p)
    \/ \E p \in Procs : ConsumeUpdate(p)
    \/ \E p \in Procs : ConsumeReturn(p)
    \/ Tick(MinutesPerDay)

SpecLedger == InitLedger /\ [][NextLedger]_vars

(***************************************************************************)
(* Specification of the user_settings table under all of its writers:      *)
(* consume calls at the endpoint costs, the monthly reset, linking and the *)
(* payment-success trigger.                                                *)
(***************************************************************************)
InitStore ==
    /\ now = StartNow
    /\ ticks = 0
    /\ ncalls = 0
    /\ calls = [p \in Procs |-> IdleCall]
    /\ sessions = << >>
    /\ ret = NoRet
    /\ transactions = [u \in Users |-> 0]
    /\ extractor_calls = 0
    /\ payments = << >>
    /\ \E cr \in {2, ReceiptCost} :
          user_settings = [u \in {"u1"} |->
              [telegram_id |-> "c1", is_premium |-> FALSE,
               premium_until |-> NULL, freemium_credits |-> cr,
               credits_reset_date |-> CURRENT_DATE - 1,
               last_bot_interaction |-> PastInstant]]

NextStore ==
    \/ \E p \in Procs, u \in Users, k \in {TextMessageCost, ReceiptCost} :
          StartConsume(p, u, k)
    \/ \E p \in Procs : ConsumeSelect(p)
    \/ \E p \in Procs : ConsumeUpdate(p)
    \/ \E p \in Procs : ConsumeReturn(p)
    \/ reset_monthly_credits
    \/ \E u \in Users, c \in Chans : link_telegram_user(u, c)
    \/ \E u \in Users : payment_success(u, now + ResetPeriodDays * MinutesPerDay)

SpecStore == InitStore /\ [][NextStore]_vars

(***************************************************************************)
(* Specification of N concurrent consume calls of k credits each, issued   *)
(* for one non-premium user whose balance is N * k.                        *)
(***************************************************************************)
InitAtomicity ==
    /\ now = StartNow
    /\ ticks = 0
    /\ ncalls = NProcs
    /\ sessions = << >>
    /\ ret = NoRet
    /\ transactions = [u \in Users |-> 0]
    /\ extractor_calls = 0
    /\ payments = << >>
    /\ \E u \in Users, k \in 1..ReceiptCost :
          /\ user_settings = [v \in {u} |->
                [telegram_id |-> "c1", is_premium |-> FALSE,
                 premium_until |-> NULL, freemium_credits |-> NProcs * k,
                 credits_reset_date |-> CURRENT_DATE + ResetPeriodDays,
                 last_bot_interaction |-> PastInstant]]
          /\ calls = [p \in Procs |->
                [IdleCall EXCEPT !.op = "consume", !.pc = "select",
                                 !.user_id = u, !.need = k,
                                 !.consumed = TRUE]]

NextAtomicity ==
    \/ \E p \in Procs : ConsumeSelect(p)
    \/ \E p \in Procs : ConsumeUpdate(p)

SpecAtomicity == InitAtomicity /\ [][NextAtomicity]_vars

\* C1: N concurrent consume(user, op, k) calls on a non-premium identity holding
\* N*k credits all succeed and leave the balance at exactly 0.
C1_CreditAtomicity ==
    (\A p \in Procs : calls[p].pc = "credited")
        => /\ \A p \in Procs : calls[p].result.success
           /\ \A u \in DOMAIN user_settings :
                  user_settings[u].freemium_credits = 0

(***************************************************************************)
(* Specification of the SessionManager alone: any sequence of its calls,   *)
(* sweeps and clock advances.                                              *)
(***************************************************************************)
SessionInputs ==
    {UserData("u1", TRUE, TRUE, FALSE, DefaultCredits),
     UserData("u2", TRUE, FALSE, TRUE, 0)}

SessionSteps == {SessionTimeout, SessionTimeout + 1}

\* the clock of the session manager advances by d minutes
SessionTick(d) ==
    /\ ticks < MaxSessionTicks
    /\ ticks' = ticks + 1
    /\ now' = now + d
    /\ UNCHANGED <<user_settings, ncalls, calls, sessions, ret, transactions,
                   extractor_calls, payments>>

InitSession ==
    /\ now = StartNow
    /\ ticks = 0
    /\ ncalls = 0
    /\ calls = [p \in Procs |-> IdleCall]
    /\ sessions = << >>
    /\ ret = NoRet
    /\ transactions = [u \in Users |-> 0]
    /\ extractor_calls = 0
    /\ payments = << >>
    /\ user_settings = << >>

NextSession ==
    \/ \E c \in Chans, d \in SessionInputs : create_session(c, d)
    \/ \E c \in Chans : get_session(c)
    \/ \E c \in Chans : is_authenticated(c)
    \/ \E c \in Chans : invalidate_session(c)
    \/ cleanup_expired_sessions
    \/ \E d \in SessionSteps : SessionTick(d)

SpecSession == InitSession /\ [][NextSession]_vars

\* C10: get_session(id) returns nothing whenever now - last_activity > timeout
\* for the entry of id, swept or not, and removes that entry; an entry with
\* now - last_activity <= timeout is returned.
C10_LazyExpiry ==
    [][\A c \in Chans :
        get_session(c) =>
            IF c \notin DOMAIN sessions
            THEN ~ret'.found /\ sessions' = sessions
            ELSE IF now - sessions[c].last_activity > SessionTimeout
            THEN ~ret'.found /\ c \notin DOMAIN sessions'
            ELSE /\ ret'.found
                 /\ c \in DOMAIN sessions'
                 /\ ret'.session.user_id = sessions[c].user_id
      ]_vars

\* a get that found an entry exactly SessionTimeout + 1 minutes old and evicted it
C10_Witness ==
    /\ ret.op = "get_session" /\ ret.evicted /\ ~ret.found
    /\ now = StartNow + SessionTimeout + 1
    /\ ret.chan \notin DOMAIN sessions

\* C11: a get (get_session or is_authenticated) that finds an entry no older
\* than the timeout sets that entry's last_activity to now and keeps it; a get
\* that misses leaves no entry for the id; no get touches another id's entry.
\* So an entry survives gets spaced at most the timeout apart and is gone
\* after a gap longer than the timeout.
C11_RefreshOnHit ==
    [][\A c \in Chans :
        (get_session(c) \/ is_authenticated(c)) =>
            /\ IF c \in DOMAIN sessions
                   /\ now - sessions[c].last_activity <= SessionTimeout
                THEN /\ c \in DOMAIN sessions'
                     /\ sessions'[c] = [sessions[c] EXCEPT !.last_activity = now]
                ELSE c \notin DOMAIN sessions'
            /\ \A k \in Chans \ {c} :
                  /\ k \in DOMAIN sessions' <=> k \in DOMAIN sessions
                  /\ k \in DOMAIN sessions => sessions'[k] = sessions[k]
      ]_vars

\* a get that hit two timeouts after the start of the run: the entry was kept
\* alive by gets spaced exactly one timeout apart
C11_Witness ==
    /\ ret.op = "get_session" /\ ret.found
    /\ now = StartNow + 2 * SessionTimeout
    /\ sessions[ret.chan].last_activity = now
    /\ \A k \in DOMAIN sessions : k = ret.chan

\* the entries a get would still return at time t
Live(ss, t) ==
    [k \in {c \in DOMAIN ss : t - ss[c].last_activity <= SessionTimeout} |-> ss[k]]

\* C27: a sweep removes exactly the entries older than the timeout; and in
\* every state each operation answers on the sessions as it would on the
\* sessions without their expired entries, and leaves the same live entries
\* from both, now and after any clock advance, so that a sweep at any point
\* changes no later answer of get_session or is_authenticated.
C27_SweepNotNeeded ==
    [][/\ ret'.op = "cleanup" /\ sessions' # sessions =>
             /\ sessions' = Live(sessions, now)
             /\ now' = now
       /\ LET swept == CleanupMap(sessions, now)
          IN /\ \A d \in {0} \cup SessionSteps :
                   Live(swept, now + d) = Live(sessions, now + d)
             /\ \A c \in Chans :
                   /\ GetSessionFound(swept, c, now)
                         = GetSessionFound(sessions, c, now)
                   /\ GetSessionFound(sessions, c, now) =>
                         /\ swept[c] = sessions[c]
                         /\ GetSessionMap(swept, c, now)[c]
                               = GetSessionMap(sessions, c, now)[c]
                   /\ Live(GetSessionMap(swept, c, now), now)
                         = Live(GetSessionMap(sessions, c, now), now)
                   /\ Live(Remove(swept, c), now)
                         = Live(Remove(sessions, c), now)
                   /\ \A data \in SessionInputs :
                         Live(CreateSessionMap(swept, c, data, now), now)
                           = Live(CreateSessionMap(sessions, c, data, now), now)
      ]_vars

\* a sweep that removed the expired entry of c1 and kept the entry of c2, which
\* is exactly SessionTimeout minutes old
C27_Witness ==
    /\ ret.op = "cleanup"
    /\ DOMAIN sessions = {"c2"}
    /\ now - sessions["c2"].last_activity = SessionTimeout

(***************************************************************************)
(* Properties of consume (SpecLedger, SpecStore)                           *)
(***************************************************************************)
\* the step in which call p runs its SELECT
SelectStep(p) == calls[p].pc = "select" /\ calls'[p] # calls[p]

\* the step in which call p gets its result
ReturnStep(p) == calls[p].pc \in {"select", "update"} /\ calls'[p].pc = "credited"

\* C2: a consume call that fails leaves the stored balance unchanged and returns
\* user_not_found exactly when there is no row for the user_id, and otherwise
\* insufficient_credits with credits_available = the balance and credits_needed =
\* the requested amount; a non-premium row with balance < credits_needed fails so.
C2_FailedConsume ==
    [][\A p \in Procs :
        LET c == calls[p]
            r == calls'[p].result
            found == c.user_id \in DOMAIN user_settings
        IN /\ (ReturnStep(p) /\ ~r.success) =>
                /\ user_settings' = user_settings
                /\ r.error = "user_not_found" <=> ~found
                /\ found =>
                    /\ r.error = "insufficient_credits"
                    /\ ~user_settings[c.user_id].is_premium
                    /\ user_settings[c.user_id].freemium_credits < c.need
                    /\ r.credits_available = user_settings[c.user_id].freemium_credits
                    /\ r.credits_needed = c.need
           /\ (SelectStep(p) /\ ~found) =>
                ReturnStep(p) /\ ~r.success /\ r.error = "user_not_found"
           /\ (SelectStep(p) /\ found /\ ~user_settings[c.user_id].is_premium
                 /\ user_settings[c.user_id].freemium_credits < c.need) =>
                ReturnStep(p) /\ ~r.success /\ r.error = "insufficient_credits"
      ]_vars

\* a failed call of 5 credits on a balance of 2 that is still 2, next to a call
\* for an unknown user_id
C2_Witness ==
    \E p, q \in Procs :
        /\ calls[p].pc = "credited"
        /\ calls[p].result.error = "insufficient_credits"
        /\ calls[p].result.credits_available = 2
        /\ calls[p].result.credits_needed = ReceiptCost
        /\ user_settings[calls[p].user_id].freemium_credits = 2
        /\ calls[q].pc = "credited"
        /\ calls[q].result.error = "user_not_found"

\* C3: for a row whose is_premium is set, consume returns success, is_premium,
\* credits_used = 0 and credits_remaining = -1 for every credits_needed, and
\* the table is not written.
C3_PremiumBypass ==
    [][\A p \in Procs :
        LET c == calls[p]
            r == calls'[p].result
        IN (SelectStep(p) /\ c.user_id \in DOMAIN user_settings
              /\ user_settings[c.user_id].is_premium) =>
                /\ calls'[p].pc = "credited"
                /\ r.success /\ r.is_premium
                /\ r.credits_used = 0 /\ r.credits_remaining = -1
                /\ user_settings' = user_settings
      ]_vars

\* a premium call asking for more than the balance, and one asking for 0
C3_Witness ==
    \E p, q \in Procs :
        /\ calls[p].pc = "credited" /\ calls[p].result.is_premium
        /\ calls[p].need = HugeNeed
        /\ user_settings[calls[p].user_id].freemium_credits < HugeNeed
        /\ calls[q].pc = "credited" /\ calls[q].result.is_premium
        /\ calls[q].need = 0

\* C4: for a non-premium row with current_credits >= credits_needed the call
\* goes on to its UPDATE, which stores current_credits - credits_needed, and the
\* result reports credits_used = credits_needed, credits_remaining = new balance.
C4_ConsumeDecrements ==
    [][\A p \in Procs :
        LET c == calls[p]
            r == calls'[p].result
        IN /\ (SelectStep(p) /\ c.user_id \in DOMAIN user_settings
                 /\ ~user_settings[c.user_id].is_premium
                 /\ user_settings[c.user_id].freemium_credits >= c.need) =>
                /\ calls'[p].pc = "update"
                /\ calls'[p].current_credits =
                       user_settings[c.user_id].freemium_credits
           /\ (c.pc = "update" /\ calls'[p] # c) =>
                /\ calls'[p].pc = "credited"
                /\ user_settings'[c.user_id].freemium_credits =
                       c.current_credits - c.need
                /\ r.success /\ ~r.is_premium
                /\ r.credits_used = c.need
                /\ r.credits_remaining =
                       user_settings'[c.user_id].freemium_credits
      ]_vars

\* a successful metered call of 0 credits and one of 5 credits
C4_Witness ==
    \E p, q \in Procs :
        /\ calls[p].pc = "credited" /\ calls[p].result.success
        /\ ~calls[p].result.is_premium /\ calls[p].need = 0
        /\ calls[q].pc = "credited" /\ calls[q].result.success
        /\ ~calls[q].result.is_premium /\ calls[q].need = ReceiptCost
        /\ calls[q].result.credits_remaining = 5

\* premium is active iff is_premium and (premium_until is null or > now)
PremiumActive(row, t) ==
    row.is_premium /\ (row.premium_until = NULL \/ row.premium_until > t)

\* C5: consume grants the premium bypass exactly when the identity is
\* premium-active; a row with is_premium set and premium_until passed is metered.
C5_BypassIffPremiumActive ==
    [][\A p \in Procs :
        LET c == calls[p]
        IN (SelectStep(p) /\ c.user_id \in DOMAIN user_settings) =>
              ((calls'[p].pc = "credited" /\ calls'[p].result.is_premium)
                 <=> PremiumActive(user_settings[c.user_id], now))
      ]_vars

\* C6: in every reachable state every row's freemium_credits is an integer >= 0.
C6_CreditsNonNegative ==
    \A u \in DOMAIN user_settings : user_settings[u].freemium_credits \in Nat

\* a consume call between its SELECT and its UPDATE while the monthly reset has
\* rewritten the balance it read
C6_Witness ==
    \E p \in Procs :
        /\ calls[p].pc = "update"
        /\ user_settings[calls[p].user_id].freemium_credits = ResetCredits
        /\ calls[p].current_credits # ResetCredits

(***************************************************************************)
(* The request handlers of api.py                                          *)
(***************************************************************************)
\* top-level keys of the MESSAGES dict of messages.py (one entry per language)
MessagesKeys == {"en", "es", "pt"}

\* (variant: every message key present at the top level of MESSAGES)
MessagesHasKeyAny(key) == TRUE

\* MESSAGES[key] evaluates without KeyError
MessagesHasKey(key) == key \in MessagesKeys

\* SELECT ... FROM user_settings WHERE telegram_id = $1
RowsByTelegramId(tbl, c) == {u \in DOMAIN tbl : tbl[u].telegram_id = c}

\* what can go wrong inside get_user_by_telegram_id_auth: the query raises, the
\* Supabase Auth call raises, or it answers with no user
AuthFaults == {"none", "db_error", "auth_error", "auth_no_user"}

NoLookup == [found |-> FALSE, data |-> NoSession]

\* get_user_by_telegram_id_auth: None, or the dict built from the row (it has
\* 'email' and 'name' but no 'first_name'); authenticated is False when the
\* Supabase Auth call raised
get_user_by_telegram_id_auth(tbl, c, fault) ==
    IF fault = "db_error" \/ RowsByTelegramId(tbl, c) = {} THEN NoLookup
    ELSE LET u == CHOOSE v \in RowsByTelegramId(tbl, c) : TRUE
         IN IF fault = "auth_no_user" THEN NoLookup
            ELSE IF fault = "auth_error"
                 THEN [found |-> TRUE,
                       data |-> [UserData(u, FALSE, FALSE, tbl[u].is_premium, 0)
                                   EXCEPT !.authenticated = FALSE]]
            ELSE [found |-> TRUE,
                  data |-> UserData(u, TRUE, FALSE, tbl[u].is_premium,
                                    tbl[u].freemium_credits)]

\* _validate_and_complete_user_data: the awaited call is made on the synchronous
\* Supabase client, the TypeError is caught and user_data comes back as it was
validate_and_complete_user_data(user_data) == user_data

\* _is_user_data_complete: all of user_id, email, first_name, authenticated
is_user_data_complete(user_data) ==
    /\ user_data.user_id # NoUser
    /\ user_data.email
    /\ user_data.first_name
    /\ user_data.authenticated

\* check_authentication for a request without supabase_user_id: the dict it
\* returns.  In the not-linked branch the dict literal evaluates
\* MESSAGES["user_not_registered"]; a KeyError there is caught by the outer
\* except, which returns "Authentication check failed" without must_register.
AuthResult(lookup) ==
    IF ~lookup.found
    THEN IF MessagesHasKey("user_not_registered")
         THEN [authenticated |-> FALSE, must_register |-> TRUE,
               message |-> "user_not_registered", user_data |-> NoSession]
         ELSE [authenticated |-> FALSE, must_register |-> FALSE,
               message |-> "Authentication check failed",
               user_data |-> NoSession]
    ELSE IF lookup.data.authenticated
         THEN [authenticated |-> TRUE, must_register |-> FALSE,
               message |-> "none",
               user_data |-> validate_and_complete_user_data(lookup.data)]
         ELSE [authenticated |-> FALSE, must_register |-> FALSE,
               message |-> "User data found but not authenticated",
               user_data |-> NoSession]

\* credits_needed each handler passes to check_and_consume_credits
Cost(op) == IF op = "process_receipt" THEN ReceiptCost ELSE TextMessageCost

ApiOps == {"route_message", "process_receipt"}

\* a request arrives at route_message / process_receipt with user_id = c; it
\* is served by the first free task
StartRequest(p, op, c) ==
    /\ calls[p].pc = "idle"
    /\ \A q \in Procs : q < p => calls[q].pc # "idle"
    /\ ncalls < MaxCalls
    /\ ncalls' = ncalls + 1
    /\ calls' = [calls EXCEPT ![p] =
                    [IdleCall EXCEPT !.op = op, !.pc = "auth", !.chan = c,
                                     !.need = Cost(op)]]
    /\ UNCHANGED <<user_settings, now, ticks, sessions, ret, transactions,
                   extractor_calls, payments>>

\* get_user_data, up to its first await: is_authenticated, get_session and the
\* completeness test; a complete session is returned and the handler goes on
\* to check_and_consume_credits, otherwise check_authentication is called
GetUserData(p) ==
    /\ calls[p].pc = "auth"
    /\ LET c == calls[p]
           ok == /\ GetSessionFound(sessions, c.chan, now)
                 /\ sessions[c.chan].authenticated
                 /\ is_user_data_complete(sessions[c.chan])
       IN /\ sessions' = GetSessionMap(sessions, c.chan, now)
          /\ calls' = [calls EXCEPT ![p] =
                IF ok
                THEN [c EXCEPT !.pc = "select",
                               !.user_id = sessions[c.chan].user_id,
                               !.resolved = TRUE, !.consumed = TRUE]
                ELSE [c EXCEPT !.pc = "lookup"]]
    /\ UNCHANGED <<user_settings, now, ticks, ncalls, ret, transactions,
                   extractor_calls, payments>>

\* check_authentication and the rest of get_user_data: the lookup, then either
\* create_session and on to check_and_consume_credits, or HTTPException(401)
CheckAuthentication(p) ==
    /\ calls[p].pc = "lookup"
    /\ \E fault \in AuthFaults :
         LET c == calls[p]
             auth_result == AuthResult(
                 get_user_by_telegram_id_auth(user_settings, c.chan, fault))
         IN IF auth_result.authenticated
            THEN /\ sessions' = CreateSessionMap(sessions, c.chan,
                                                 auth_result.user_data, now)
                 /\ calls' = [calls EXCEPT ![p] =
                       [c EXCEPT !.pc = "select",
                                 !.user_id = auth_result.user_data.user_id,
                                 !.resolved = TRUE, !.consumed = TRUE]]
            ELSE /\ calls' = [calls EXCEPT ![p] =
                       [c EXCEPT !.pc = "done", !.status = 401,
                                 !.detail = auth_result.message]]
                 /\ UNCHANGED sessions
    /\ UNCHANGED <<user_settings, now, ticks, ncalls, ret, transactions,
                   extractor_calls, payments>>

\* what check_and_consume_credits does with the result of consume_credits: on
\* insufficient_credits it builds the message from MESSAGES["insufficient_credits"]
\* (a KeyError there leaves the function as an exception), every other result
\* is returned as it is
CheckAndConsumeRaises(result) ==
    /\ ~result.success
    /\ result.error = "insufficient_credits"
    /\ ~MessagesHasKey("insufficient_credits")

\* the dict check_and_consume_credits returns when it returns
CheckAndConsumeReturn(result) ==
    IF ~result.success /\ result.error = "insufficient_credits"
    THEN [NoResult EXCEPT !.error = "insufficient_credits"]
    ELSE result

\* route_message: if credit_result["success"]
RouteProceeds(credit_result) == credit_result.success

\* process_receipt goes on to the receipt step without reading credit_result
ReceiptProceeds(credit_result) == TRUE

\* (variant: the handler goes on to step 3 whatever consume answered)
AfterCreditsNextUnchecked(c) ==
    [c EXCEPT !.pc = "extract", !.credit_result = c.result]

\* the handler from the return of consume_credits to its next await: the
\* KeyError leaves through except Exception as HTTPException(500); otherwise
\* route_message tests credit_result["success"] and process_receipt does not
AfterCreditsNext(c) ==
    LET credit_result == CheckAndConsumeReturn(c.result)
        proceeds == IF c.op = "route_message"
                    THEN RouteProceeds(credit_result)
                    ELSE ReceiptProceeds(credit_result)
    IN IF CheckAndConsumeRaises(c.result)
       THEN [c EXCEPT !.pc = "done", !.status = 500,
                      !.detail = "Internal server error"]
       ELSE IF proceeds
            THEN [c EXCEPT !.pc = "extract", !.credit_result = credit_result]
       ELSE [c EXCEPT !.pc = "done", !.status = 200,
                      !.detail = "success_false",
                      !.credit_result = credit_result]

\* check_and_consume_credits returns (or raises) into the handler
AfterCredits(p) ==
    /\ calls[p].pc = "credited"
    /\ calls[p].op \in ApiOps
    /\ calls' = [calls EXCEPT ![p] = AfterCreditsNext(calls[p])]
    /\ UNCHANGED <<user_settings, now, ticks, ncalls, sessions, ret,
                   transactions, extractor_calls, payments>>

\* the classification labels, as the words they are made of
TRANSACTION == <<"TRANSACTION">>
REMINDER == <<"REMINDER">>
TRANSACTION_SUMMARY == <<"TRANSACTION", "_", "SUMMARY">>
REMINDER_SUMMARY == <<"REMINDER", "_", "SUMMARY">>
HELP == <<"HELP">>
GENERAL == <<"GENERAL">>

IntentResponses ==
    {TRANSACTION, REMINDER, TRANSACTION_SUMMARY, REMINDER_SUMMARY, HELP, GENERAL}

\* _contains_intent: intent.lower() in response.lower()
contains_intent(response, intent) ==
    \E i \in 1..(Len(response) - Len(intent) + 1) :
        SubSeq(response, i, i + Len(intent) - 1) = intent

\* the if / elif chain of MainAgent.route_message
Dispatch(response) ==
    IF contains_intent(response, TRANSACTION) THEN "process_transaction"
    ELSE IF contains_intent(response, REMINDER) THEN "process_reminder"
    ELSE IF contains_intent(response, TRANSACTION_SUMMARY) THEN "get_summary"
    ELSE IF contains_intent(response, REMINDER_SUMMARY) THEN "get_reminders"
    ELSE IF contains_intent(response, HELP) THEN "help"
    ELSE "general"

\* what the extraction run gives back: JSON with the data, JSON saying nothing
\* was found, an exception (caught inside the agent), or text that is not JSON
Outcomes == {"found", "not_found", "error", "malformed"}

RecordKinds == {"process_transaction", "process_reminder", "process_receipt"}

\* calls of MainAgent.route_message that pass more positional arguments than
\* the callee takes (ReminderAgent.process_message(user_id, message) and
\* ReminderAgent.get_reminders(user_id, limit)): TypeError, caught by the
\* except of route_message
RaisesTypeError(kind) == kind \in {"process_reminder", "get_reminders"}

\* _fallback_parse(message): a transaction built from the first number in the
\* message, or transaction_found False when the message has none
fallback_parse(has_amount) == IF has_amount THEN "fallback" ELSE "not_found"

\* the data the agent goes on with: TransactionAgent.process_message answers
\* text that is not JSON with _fallback_parse, process_receipt_image returns
\* at once
Frame(kind, outcome, has_amount) ==
    IF RaisesTypeError(kind) THEN "error"
    ELSE IF kind \notin RecordKinds THEN "none"
    ELSE IF outcome = "malformed"
    THEN IF kind = "process_transaction" THEN fallback_parse(has_amount)
         ELSE "not_found"
    ELSE outcome

\* (variant: the save made whatever the frame says)
PersistsUnchecked(kind, frame) ==
    kind \in RecordKinds /\ ~RaisesTypeError(kind)

\* save_transaction / save_reminder is reached only past the found test
Persists(kind, frame) ==
    kind \in RecordKinds /\ ~RaisesTypeError(kind)
        /\ frame \in {"found", "fallback"}

\* step 3 of the handlers: main_agent.route_message or
\* transaction_agent.process_receipt_image, then the response
Extract(p) ==
    /\ calls[p].pc = "extract"
    \* only route_message runs the classifier
    /\ \E response \in (IF calls[p].op = "route_message" THEN IntentResponses
                        ELSE {GENERAL}),
          outcome \in Outcomes :
      \E has_amount \in (IF outcome = "malformed" THEN BOOLEAN ELSE {FALSE}) :
         LET c == calls[p]
             kind == IF c.op = "route_message" THEN Dispatch(response)
                     ELSE "process_receipt"
             frame == Frame(kind, outcome, has_amount)
             saved == Persists(kind, frame)
             raises == /\ c.op = "process_receipt"
                       /\ ~c.credit_result.is_premium
                       /\ ~MessagesHasKey("credits_remaining")
         IN /\ transactions' =
                  IF saved /\ c.user_id \in DOMAIN transactions
                  THEN [transactions EXCEPT ![c.user_id] = @ + 1]
                  ELSE transactions
            /\ calls' = [calls EXCEPT ![p] =
                  [c EXCEPT !.pc = "done", !.extracted = TRUE,
                            !.frame = frame, !.persisted = saved,
                            !.status = IF raises THEN 500 ELSE 200,
                            !.detail = IF raises THEN "Internal server error"
                                       ELSE "ok"]]
    /\ extractor_calls' = extractor_calls + 1
    /\ UNCHANGED <<user_settings, now, ticks, ncalls, sessions, ret, payments>>

\* the response is sent and the task ends
Finish(p) ==
    /\ calls[p].pc = "done"
    /\ calls[p].op \in ApiOps
    /\ calls' = [calls EXCEPT ![p] = IdleCall]
    /\ UNCHANGED <<user_settings, now, ticks, ncalls, sessions, ret,
                   transactions, extractor_calls, payments>>

(***************************************************************************)
(* Specification of the API: concurrent route_message and process_receipt  *)
(* requests against a table in which c1 is linked to u1 and c2 is linked   *)
(* to nobody.                                                              *)
(***************************************************************************)
ApiCredits == {1, ReceiptCost + 1}

Init ==
    /\ now = StartNow
    /\ ticks = 0
    /\ ncalls = 0
    /\ calls = [p \in Procs |-> IdleCall]
    /\ sessions = << >>
    /\ ret = NoRet
    /\ transactions = [u \in Users |-> 0]
    /\ extractor_calls = 0
    /\ payments = << >>
    /\ \E cr \in ApiCredits, prem \in BOOLEAN :
          user_settings = [u \in {"u1"} |->
              [telegram_id |-> "c1", is_premium |-> prem,
               premium_until |-> NULL, freemium_credits |-> cr,
               credits_reset_date |-> CURRENT_DATE + ResetPeriodDays,
                 last_bot_interaction |-> PastInstant]]

Next ==
    \/ \E p \in Procs, op \in ApiOps, c \in Chans : StartRequest(p, op, c)
    \/ \E p \in Procs : GetUserData(p)
    \/ \E p \in Procs : CheckAuthentication(p)
    \/ \E p \in Procs : ConsumeSelect(p)
    \/ \E p \in Procs : ConsumeUpdate(p)
    \/ \E p \in Procs : AfterCredits(p)
    \/ \E p \in Procs : Extract(p)
    \/ \E p \in Procs : Finish(p)

Spec == Init /\ [][Next]_vars

(***************************************************************************)
(* check_authentication with a claimed supabase_user_id, handle_start,     *)
(* register_user and get_user_data as whole calls                          *)
(***************************************************************************)
\* positional parameters of SupabaseClient.link_telegram_user after self, and
\* positional arguments every caller in api.py passes
LinkTelegramUserParams == 2
LinkTelegramUserArgs == 3

\* a call with more positional arguments than the function takes raises TypeError
CallRaisesTypeError(nargs, nparams) == nargs > nparams

\* the dict returned by the outer except of check_authentication
GenericAuthFailure ==
    [authenticated |-> FALSE, must_register |-> FALSE,
     message |-> "Authentication check failed", user_data |-> NoSession]

\* (variant: the create_session call left out)
SessionAfterAuthSkipped(ss, c, authenticated, user_data, t) == ss

\* session_manager.create_session(request.telegram_id, user_data), made on the
\* authenticated paths only
SessionAfterAuth(ss, c, authenticated, user_data, t) ==
    IF authenticated THEN CreateSessionMap(ss, c, user_data, t) ELSE ss

\* check_authentication(request) as a whole: the dict it returns, the table
\* and the sessions it leaves, and the number of store lookups it made.
\* fault is what goes wrong in the first lookup, fault2 in the link and the
\* re-fetch; row is the row the link INSERT would create.
CheckAuthRun(tbl, ss, c, claimed, fault, fault2, row, t) ==
    LET lookup == get_user_by_telegram_id_auth(tbl, c, fault)
    IN IF lookup.found \/ claimed = NoUser
       THEN LET r == AuthResult(lookup)
            IN [result |-> r, tbl |-> tbl, lookups |-> 1,
                sessions |-> SessionAfterAuth(ss, c, r.authenticated,
                                              r.user_data, t)]
       ELSE IF CallRaisesTypeError(LinkTelegramUserArgs, LinkTelegramUserParams)
               \/ fault2 = "db_error"
               \/ ~TelegramIdFree(tbl, claimed, c)
       THEN [result |-> GenericAuthFailure, tbl |-> tbl, lookups |-> 1,
             sessions |-> ss]
       ELSE LET tbl2 == LinkTable(tbl, claimed, c, row)
                lookup2 == get_user_by_telegram_id_auth(tbl2, c, fault2)
                auth == lookup2.found /\ lookup2.data.authenticated
                data == validate_and_complete_user_data(lookup2.data)
                ss2 == SessionAfterAuth(ss, c, auth, data, t)
            IN IF MessagesHasKey("link_success")
                  /\ (auth \/ MessagesHasKey("failed_retrieve_user_data"))
               THEN [result |-> [authenticated |-> auth,
                                 must_register |-> FALSE,
                                 message |-> "link_success",
                                 user_data |-> IF auth THEN data ELSE NoSession],
                     tbl |-> tbl2, lookups |-> 2, sessions |-> ss2]
               ELSE [result |-> GenericAuthFailure, tbl |-> tbl2,
                     lookups |-> 2, sessions |-> ss2]

IdentityOps == {"handle_start", "register_user", "get_user_data"}

\* the record of a finished call of one of the identity handlers
Finished(op, c, claimed) ==
    [IdleCall EXCEPT !.op = op, !.pc = "done", !.chan = c, !.claimed = claimed]

\* the auth_result of a call and what went wrong in its first lookup, copied
\* into its record
WithAuth(call, run, fault) ==
    [call EXCEPT !.auth_message = run.result.message,
                 !.fault = fault,
                 !.must_register = run.result.must_register,
                 !.resolved = run.result.authenticated,
                 !.user_id = run.result.user_data.user_id,
                 !.lookups = run.lookups]

\* get_user_data(AuthCheckRequest(telegram_id = c)) as a whole: the session
\* fast path, or check_authentication and HTTPException(401)
GetIdentity(p, c) ==
    /\ calls[p].pc \in {"idle", "done"}
    /\ ncalls < MaxCalls
    /\ ncalls' = ncalls + 1
    /\ \E fault \in AuthFaults :
         LET ss == GetSessionMap(sessions, c, now)
             hit == /\ GetSessionFound(sessions, c, now)
                    /\ sessions[c].authenticated
                    /\ is_user_data_complete(sessions[c])
             run == CheckAuthRun(user_settings, ss, c, NoUser, fault, fault,
                                 NewRow(c, FALSE, NULL), now)
             call == Finished("get_user_data", c, NoUser)
         IN IF hit
            THEN /\ sessions' = ss
                 /\ user_settings' = user_settings
                 /\ calls' = [calls EXCEPT ![p] =
                       [call EXCEPT !.resolved = TRUE, !.success = TRUE,
                                    !.status = 200,
                                    !.user_id = sessions[c].user_id]]
            ELSE /\ sessions' = run.sessions
                 /\ user_settings' = run.tbl
                 /\ calls' = [calls EXCEPT ![p] =
                       IF run.result.authenticated
                       THEN [WithAuth(call, run, fault) EXCEPT !.success = TRUE,
                                                        !.status = 200]
                       ELSE [WithAuth(call, run, fault) EXCEPT
                                !.status = 401,
                                !.detail = run.result.message]]
    /\ UNCHANGED <<now, ticks, ret, transactions, extractor_calls, payments>>

\* str.format raises KeyError when the template names a field that is not among
\* the keyword arguments
FormatRaises(fields, kwargs) == ~(fields \subseteq kwargs)

\* replacement fields of MESSAGES['en']['welcome_authenticated']
WelcomeAuthenticatedFields == {"name"}

\* handle_start with main_agent unset: HTTPException(503) is raised inside the
\* try, caught by except Exception and raised again as HTTPException(500)
StartNotReady(call) ==
    [call EXCEPT !.status = 500, !.success = FALSE,
                 !.detail = "503: Service not ready"]

\* handle_start past the authentication: get_session and the welcome message
StartWelcome(call) ==
    IF FormatRaises(WelcomeAuthenticatedFields, {"first_name"})
    THEN [call EXCEPT !.status = 200, !.success = FALSE,
                      !.detail = "issue connecting to the service"]
    ELSE [call EXCEPT !.status = 200, !.success = TRUE,
                      !.detail = "welcome_authenticated"]

\* handle_start(StartRequest(user_id = c, args = [claimed])) as a whole
HandleStart(p, c, claimed, ready) ==
    /\ calls[p].pc \in {"idle", "done"}
    /\ ncalls < MaxCalls
    /\ ncalls' = ncalls + 1
    /\ \E fault \in AuthFaults, fault2 \in {"none", "db_error"} :
         LET ss == GetSessionMap(sessions, c, now)
             valid == /\ GetSessionFound(sessions, c, now)
                      /\ sessions[c].authenticated
             run == CheckAuthRun(user_settings, ss, c, claimed, fault, fault2,
                                 NewRow(c, FALSE, NULL), now)
             call == Finished("handle_start", c, claimed)
         IN IF ~ready
            THEN /\ calls' = [calls EXCEPT ![p] = StartNotReady(call)]
                 /\ UNCHANGED <<sessions, user_settings>>
            ELSE IF valid
            THEN /\ sessions' = ss
                 /\ user_settings' = user_settings
                 /\ calls' = [calls EXCEPT ![p] = StartWelcome(call)]
            ELSE /\ sessions' = GetSessionMap(run.sessions, c, now)
                 /\ user_settings' = run.tbl
                 /\ calls' = [calls EXCEPT ![p] =
                       IF run.result.authenticated
                       THEN StartWelcome(WithAuth(call, run, fault))
                       ELSE IF run.result.must_register
                       THEN [WithAuth(call, run, fault) EXCEPT
                                !.status = 200, !.success = TRUE,
                                !.detail = "welcome_unauthenticated"]
                       ELSE [WithAuth(call, run, fault) EXCEPT
                                !.status = 200, !.success = FALSE,
                                !.detail = run.result.message]]
    /\ UNCHANGED <<now, ticks, ret, transactions, extractor_calls, payments>>

\* attributes of RegisterRequest (models.py)
RegisterRequestFields ==
    {"telegram_id", "email", "name", "language_code", "timezone", "currency"}

\* reading request.<field> raises AttributeError
AttributeRaises(field) == field \notin RegisterRequestFields

\* register_user: existing_user and existing_user.get('authenticated', False)
AlreadyRegistered(existing) == existing.found /\ existing.data.authenticated

RegisterFailed500(tbl, ss) ==
    [status |-> 500, success |-> FALSE, detail |-> "registration error",
     tbl |-> tbl, sessions |-> ss]

\* (variant: no test of the existing link, and a link call and a request that
\* fit their definitions)
RegisterRunUnchecked(tbl, ss, c, owner, fault, row, t) ==
    [status |-> 200, success |-> TRUE, detail |-> "registration_success",
     tbl |-> LinkTableNoUnique(tbl, owner, c, row),
     sessions |-> CreateSessionMap(ss, c,
                     UserData(owner, TRUE, TRUE, FALSE, 0), t)]

\* register_user(RegisterRequest(telegram_id = c, ...)) as a whole: status,
\* body and the table and sessions it leaves.  owner is the auth user the
\* e-mail belongs to or the one sign-up creates.
RegisterRun(tbl, ss, c, owner, fault, row, t) ==
    LET existing == get_user_by_telegram_id_auth(tbl, c, fault)
    IN IF AlreadyRegistered(existing)
       THEN IF MessagesHasKey("telegram_already_registered")
            THEN [status |-> 200, success |-> FALSE,
                  detail |-> "telegram_already_registered",
                  tbl |-> tbl, sessions |-> ss]
            ELSE RegisterFailed500(tbl, ss)
       ELSE IF AttributeRaises("first_name")
               \/ CallRaisesTypeError(LinkTelegramUserArgs,
                                      LinkTelegramUserParams)
               \/ ~TelegramIdFree(tbl, owner, c)
       THEN RegisterFailed500(tbl, ss)
       ELSE LET tbl2 == LinkTable(tbl, owner, c, row)
                ss2 == CreateSessionMap(ss, c,
                          UserData(owner, TRUE, TRUE, FALSE, 0), t)
            IN IF MessagesHasKey("registration_success")
               THEN [status |-> 200, success |-> TRUE,
                     detail |-> "registration_success",
                     tbl |-> tbl2, sessions |-> ss2]
               ELSE RegisterFailed500(tbl2, ss2)

RegisterUser(p, c, owner) ==
    /\ calls[p].pc \in {"idle", "done"}
    /\ ncalls < MaxCalls
    /\ ncalls' = ncalls + 1
    /\ \E fault \in AuthFaults :
         LET run == RegisterRun(user_settings, sessions, c, owner, fault,
                                NewRow(c, FALSE, NULL), now)
         IN /\ user_settings' = run.tbl
            /\ sessions' = run.sessions
            /\ calls' = [calls EXCEPT ![p] =
                  [Finished("register_user", c, owner) EXCEPT
                      !.status = run.status, !.success = run.success,
                      !.detail = run.detail, !.lookups = 1]]
    /\ UNCHANGED <<now, ticks, ret, transactions, extractor_calls, payments>>

(***************************************************************************)
(* Specification of identity resolution: handle_start, register_user and   *)
(* get_user_data calls, links made through SupabaseClient by the mobile    *)
(* app, and the clock.                                                     *)
(***************************************************************************)
InitIdentity ==
    /\ now = StartNow
    /\ ticks = 0
    /\ ncalls = 0
    /\ calls = [p \in Procs |-> IdleCall]
    /\ sessions = << >>
    /\ ret = NoRet
    /\ transactions = [u \in Users |-> 0]
    /\ extractor_calls = 0
    /\ payments = << >>
    /\ user_settings = [u \in {"u1"} |->
          [telegram_id |-> "c1", is_premium |-> FALSE,
           premium_until |-> NULL, freemium_credits |-> DefaultCredits,
           credits_reset_date |-> CURRENT_DATE + ResetPeriodDays,
           last_bot_interaction |-> PastInstant]]

NextIdentity ==
    \/ \E c \in Chans, u \in Users \cup {NoUser}, ready \in BOOLEAN :
          HandleStart(1, c, u, ready)
    \/ \E c \in Chans, u \in Users : RegisterUser(1, c, u)
    \/ \E c \in Chans : GetIdentity(1, c)
    \/ \E u \in Users, c \in Chans : link_telegram_user(u, c)
    \/ Tick(SessionTimeout + 1)

SpecIdentity == InitIdentity /\ [][NextIdentity]_vars

(***************************************************************************)
(* Specification of linking: calls of SupabaseClient.link_telegram_user    *)
(* with its two arguments, and the clock.                                  *)
(***************************************************************************)
\* one call link_telegram_user(uid, tg): the statement runs, or is aborted by
\* the UNIQUE constraint and the exception is raised again to the caller
LinkCall(p, uid, tg) ==
    /\ calls[p].pc \in {"idle", "done"}
    /\ ncalls < MaxCalls
    /\ ncalls' = ncalls + 1
    /\ user_settings' =
          LinkTable(user_settings, uid, tg, NewRow(tg, FALSE, NULL))
    /\ calls' = [calls EXCEPT ![p] =
          [IdleCall EXCEPT
              !.op = "link_telegram_user", !.pc = "done",
              !.chan = tg, !.claimed = uid,
              !.success = TelegramIdFree(user_settings, uid, tg),
              !.repeat = /\ calls[p].op = "link_telegram_user"
                         /\ calls[p].chan = tg
                         /\ calls[p].claimed = uid
                         /\ calls[p].success]]
    /\ UNCHANGED <<now, ticks, sessions, ret, transactions, extractor_calls, payments>>

InitLink ==
    /\ now = StartNow
    /\ ticks = 0
    /\ ncalls = 0
    /\ calls = [p \in Procs |-> IdleCall]
    /\ sessions = << >>
    /\ ret = NoRet
    /\ transactions = [u \in Users |-> 0]
    /\ extractor_calls = 0
    /\ payments = << >>
    /\ \E linked \in SUBSET {"u1"} :
          user_settings = [u \in linked |->
              [telegram_id |-> "c1", is_premium |-> FALSE,
               premium_until |-> NULL, freemium_credits |-> DefaultCredits,
               credits_reset_date |-> CURRENT_DATE + ResetPeriodDays,
               last_bot_interaction |-> PastInstant]]

NextLink ==
    \/ \E u \in Users, c \in Chans : LinkCall(1, u, c)
    \/ SessionTick(SessionTimeout)

SpecLink == InitLink /\ [][NextLink]_vars

(***************************************************************************)
(* Specification of the monthly reset: calls of                            *)
(* SupabaseClient.reset_monthly_credits against tables of premium and      *)
(* non-premium rows with reset dates before, on and after today.           *)
(***************************************************************************)
\* GET DIAGNOSTICS affected_users = ROW_COUNT
AffectedUsers(tbl, today) ==
    Cardinality({u \in DOMAIN tbl :
        ~tbl[u].is_premium /\ tbl[u].credits_reset_date < today})

\* SELECT reset_monthly_credits(): one UPDATE, its row count returned
ResetCall(p) ==
    /\ calls[p].pc \in {"idle", "done"}
    /\ ncalls < MaxCalls
    /\ ncalls' = ncalls + 1
    /\ user_settings' =
          [u \in DOMAIN user_settings |->
              ResetRow(user_settings[u], CURRENT_DATE)]
    /\ calls' = [calls EXCEPT ![p] =
          [IdleCall EXCEPT
              !.op = "reset_monthly_credits", !.pc = "done",
              !.today = CURRENT_DATE,
              !.affected_users = AffectedUsers(user_settings, CURRENT_DATE)]]
    /\ UNCHANGED <<now, ticks, sessions, ret, transactions, extractor_calls, payments>>

ResetDates == {CURRENT_DATE - 1, CURRENT_DATE, CURRENT_DATE + ResetPeriodDays}

InitReset ==
    /\ now = StartNow
    /\ ticks = 0
    /\ ncalls = 0
    /\ calls = [p \in Procs |-> IdleCall]
    /\ sessions = << >>
    /\ ret = NoRet
    /\ transactions = [u \in Users |-> 0]
    /\ extractor_calls = 0
    /\ payments = << >>
    /\ \E prem \in [Users -> BOOLEAN], cr \in [Users -> {0, DefaultCredits}],
          rd \in [Users -> ResetDates] :
          user_settings = [u \in Users |->
              [telegram_id |-> NoChan, is_premium |-> prem[u],
               premium_until |-> IF prem[u] THEN SoonInstant ELSE NULL,
               freemium_credits |-> cr[u],
               credits_reset_date |-> rd[u],
               last_bot_interaction |-> PastInstant]]

NextReset ==
    \/ ResetCall(1)
    \/ Tick(MinutesPerDay)

SpecReset == InitReset /\ [][NextReset]_vars

(***************************************************************************)
(* Specification of a monthly reset (task 2) running while task 1 consumes *)
(* credits of the non-premium user u1, whose reset date has passed.        *)
(***************************************************************************)
InitResetConsume ==
    /\ now = StartNow
    /\ ticks = 0
    /\ ncalls = 0
    /\ calls = [p \in Procs |-> IdleCall]
    /\ sessions = << >>
    /\ ret = NoRet
    /\ transactions = [u \in Users |-> 0]
    /\ extractor_calls = 0
    /\ payments = << >>
    /\ \E cr \in {0, 2, ReceiptCost, DefaultCredits} :
          user_settings = [u \in {"u1"} |->
              [telegram_id |-> "c1", is_premium |-> FALSE,
               premium_until |-> NULL, freemium_credits |-> cr,
               credits_reset_date |-> CURRENT_DATE - 1,
               last_bot_interaction |-> PastInstant]]

NextResetConsume ==
    \/ \E k \in {TextMessageCost, ReceiptCost} : StartConsume(1, "u1", k)
    \/ ConsumeSelect(1)
    \/ ConsumeUpdate(1)
    \/ ConsumeReturn(1)
    \/ ResetCall(2)

SpecResetConsume == InitResetConsume /\ [][NextResetConsume]_vars

(***************************************************************************)
(* The Stripe webhook: api.handle_stripe_webhook,                          *)
(* SupabaseClient.handle_stripe_webhook and the payments table             *)
(***************************************************************************)
PaymentIds == {"pay1", "pay2"}
NoPayment == "none"
Signatures == {"missing", "invalid", "valid"}
EventTypes == {"checkout.session.completed", "invoice.paid"}

\* create_payment: a 'pending' row with valid_until = creation time + 30 days
PendingPayment(uid, t) ==
    [user_id |-> uid, status |-> "pending",
     valid_until |-> t + ResetPeriodDays * MinutesPerDay]

\* update_premium_status(), fired by payment_success_trigger for the row NEW
PremiumTrigger(tbl, new, row) ==
    IF new.status = "success" /\ new.valid_until # NULL
    THEN IF new.user_id \in DOMAIN tbl
         THEN [tbl EXCEPT ![new.user_id].is_premium = TRUE,
                          ![new.user_id].premium_until = new.valid_until]
         ELSE Upsert(tbl, new.user_id,
                     [row EXCEPT !.is_premium = TRUE,
                                 !.premium_until = new.valid_until])
    ELSE tbl

\* bool(x) of the (bool, Optional[str]) tuple SupabaseClient.handle_stripe_webhook
\* returns: a non-empty tuple is true
Truthy(tuple) == Len(tuple) > 0

\* SupabaseClient.handle_stripe_webhook(payload, sig_header) as a whole: the
\* tuple it returns or the exception it raises, and the tables it leaves
WebhookRun(pay, tbl, sig, secret, etype, pid, row) ==
    IF ~secret \/ sig # "valid"
    THEN [raises |-> FALSE, value |-> <<FALSE, NoChan>>, pay |-> pay, tbl |-> tbl]
    ELSE IF etype # "checkout.session.completed"
    THEN [raises |-> FALSE, value |-> <<TRUE, NoChan>>, pay |-> pay, tbl |-> tbl]
    ELSE IF pid = NoPayment
    THEN [raises |-> FALSE, value |-> <<FALSE, NoChan>>, pay |-> pay, tbl |-> tbl]
    ELSE IF pid \notin DOMAIN pay
    THEN \* update_payment_status: raise ValueError("Payment ... not found")
         [raises |-> TRUE, value |-> <<FALSE, NoChan>>, pay |-> pay, tbl |-> tbl]
    ELSE LET pay2 == [pay EXCEPT ![pid].status = "success"]
             tbl2 == PremiumTrigger(tbl, pay2[pid], row)
         IN [raises |-> FALSE,
             value |-> <<TRUE, tbl2[pay2[pid].user_id].telegram_id>>,
             pay |-> pay2, tbl |-> tbl2]

\* POST /api/v1/webhooks/stripe as a whole
HandleStripeWebhook(p, sig, secret, etype, pid) ==
    /\ calls[p].pc \in {"idle", "done"}
    /\ ncalls < MaxCalls
    /\ ncalls' = ncalls + 1
    /\ LET run == WebhookRun(payments, user_settings, sig, secret, etype, pid,
                             NewRow(NoChan, FALSE, NULL))
           call == [IdleCall EXCEPT
                      !.op = "handle_stripe_webhook", !.pc = "done",
                      !.signature = sig, !.secret = secret, !.event = etype,
                      !.payment_id = pid]
       IN IF sig = "missing"
          THEN /\ calls' = [calls EXCEPT ![p] =
                     [call EXCEPT !.status = 400,
                                  !.detail = "Missing Stripe-Signature header"]]
               /\ UNCHANGED <<payments, user_settings>>
          ELSE /\ payments' = run.pay
               /\ user_settings' = run.tbl
               /\ calls' = [calls EXCEPT ![p] =
                     IF run.raises
                     THEN [call EXCEPT !.status = 500, !.detail = "error"]
                     ELSE IF Truthy(run.value)
                     THEN [call EXCEPT !.status = 200, !.detail = "success",
                                       !.success = TRUE]
                     ELSE [call EXCEPT !.status = 400, !.detail = "failed"]]
    /\ UNCHANGED <<now, ticks, sessions, ret, transactions, extractor_calls>>

\* u1 is linked to c1 and not premium, its channel may hold a session made by
\* an earlier resolve; pay1 is u1's pending payment
InitWebhook ==
    /\ now = StartNow
    /\ ticks = 0
    /\ ncalls = 0
    /\ calls = [p \in Procs |-> IdleCall]
    /\ ret = NoRet
    /\ transactions = [u \in Users |-> 0]
    /\ extractor_calls = 0
    /\ payments = [i \in {"pay1"} |-> PendingPayment("u1", PastInstant)]
    /\ user_settings = [u \in {"u1"} |->
          [telegram_id |-> "c1", is_premium |-> FALSE,
           premium_until |-> NULL, freemium_credits |-> DefaultCredits,
           credits_reset_date |-> CURRENT_DATE + ResetPeriodDays,
           last_bot_interaction |-> PastInstant]]
    /\ \E cached \in BOOLEAN :
          sessions =
             IF cached
             THEN CreateSessionMap(<< >>, "c1",
                     UserData("u1", TRUE, FALSE, FALSE, DefaultCredits), StartNow)
             ELSE << >>

NextWebhook ==
    \/ \E sig \in Signatures, secret \in BOOLEAN, etype \in EventTypes,
          pid \in PaymentIds \cup {NoPayment} :
          HandleStripeWebhook(1, sig, secret, etype, pid)
    \/ \E c \in Chans : GetIdentity(1, c)
    \/ Tick(SessionTimeout + 1)

SpecWebhook == InitWebhook /\ [][NextWebhook]_vars

(***************************************************************************)
(* Specification of MainAgent.route_message: calls with every category the *)
(* classifier can answer and every outcome of the extraction.              *)
(***************************************************************************)
\* MainAgent.route_message(user_id, message, user_data) as a whole
MainRouteMessage(p, u, response, outcome, has_amount) ==
    /\ calls[p].pc \in {"idle", "done"}
    /\ ncalls < MaxCalls
    /\ ncalls' = ncalls + 1
    /\ LET kind == Dispatch(response)
           frame == Frame(kind, outcome, has_amount)
           saved == Persists(kind, frame)
       IN /\ transactions' =
                IF saved THEN [transactions EXCEPT ![u] = @ + 1]
                ELSE transactions
          /\ calls' = [calls EXCEPT ![p] =
                [IdleCall EXCEPT
                    !.op = "main_agent.route_message", !.pc = "done",
                    !.user_id = u, !.response = response, !.handler = kind,
                    !.extracted = kind \in RecordKinds, !.frame = frame,
                    !.persisted = saved]]
          \* the classification run, then the run of the agent reached
          /\ extractor_calls' =
                extractor_calls +
                  (IF kind = "help" \/ RaisesTypeError(kind) THEN 1 ELSE 2)
    /\ UNCHANGED <<user_settings, now, ticks, sessions, ret, payments>>

InitDispatch ==
    /\ now = StartNow
    /\ ticks = 0
    /\ ncalls = 0
    /\ calls = [p \in Procs |-> IdleCall]
    /\ sessions = << >>
    /\ ret = NoRet
    /\ transactions = [u \in Users |-> 0]
    /\ extractor_calls = 0
    /\ payments = << >>
    /\ user_settings = [u \in Users |->
          [telegram_id |-> IF u = "u1" THEN "c1" ELSE "c2",
           is_premium |-> FALSE,
           premium_until |-> NULL, freemium_credits |-> DefaultCredits,
           credits_reset_date |-> CURRENT_DATE + ResetPeriodDays,
           last_bot_interaction |-> PastInstant]]

NextDispatch ==
    \E u \in Users, response \in IntentResponses, outcome \in Outcomes :
      \E has_amount \in (IF outcome = "malformed" THEN BOOLEAN ELSE {FALSE}) :
        MainRouteMessage(1, u, response, outcome, has_amount)

SpecDispatch == InitDispatch /\ [][NextDispatch]_vars

(***************************************************************************)
(* ReminderAgent._parse_due_date (agents/reminder_agent.py)                *)
(***************************************************************************)
\* the pieces a due_date string is made of: words, clock times written
\* h[:mm]am/pm (minute NULL when there is no :mm), and a whole ISO-8601 string
Word(w) ==
    [kind |-> "word", word |-> w, hour |-> 0, minute |-> NULL, ampm |-> "none",
     wall |-> 0, tzinfo |-> "none"]
Time(h, m, ampm) ==
    [kind |-> "time", word |-> "none", hour |-> h, minute |-> m, ampm |-> ampm,
     wall |-> 0, tzinfo |-> "none"]
Iso(wall, tzinfo) ==
    [kind |-> "iso", word |-> "none", hour |-> 0, minute |-> NULL,
     ampm |-> "none", wall |-> wall, tzinfo |-> tzinfo]

NoDue == [found |-> FALSE, raised |-> FALSE, wall |-> 0, tzinfo |-> "none"]
DueRaised == [NoDue EXCEPT !.raised = TRUE]

\* "<keyword>" in date_str
InDateStr(date_str, w) == \E i \in 1..Len(date_str) : date_str[i] = Word(w)

\* the if / elif chain over the relative keywords: days added to today
BaseDays(date_str) ==
    IF InDateStr(date_str, "today") THEN 0
    ELSE IF InDateStr(date_str, "tomorrow") THEN 1
    ELSE IF InDateStr(date_str, "next week") THEN 7
    ELSE IF InDateStr(date_str, "next month") THEN 30
    ELSE 0

\* (variant: pm adds 12 to every hour)
Hour24AlwaysAdd(hour, ampm) ==
    IF ampm = "pm" THEN hour + 12
    ELSE IF ampm = "am" /\ hour = 12 THEN 0
    ELSE hour

\* if ampm == 'pm' and hour != 12: hour += 12 / elif ampm == 'am' and hour == 12
Hour24(hour, ampm) ==
    IF ampm = "pm" /\ hour # 12 THEN hour + 12
    ELSE IF ampm = "am" /\ hour = 12 THEN 0
    ELSE hour

\* re.search(...): the positions of the clock times in date_str
TimeMatches(date_str) ==
    {i \in 1..Len(date_str) : date_str[i].kind = "time"}

\* _parse_due_date(date_str) when datetime.now() is today_wall (minutes of
\* the server's wall clock): None, the parsed ISO datetime, a naive datetime
\* on the server's wall clock, or ValueError from time.replace
parse_due_date(date_str, today_wall) ==
    IF date_str = << >> THEN NoDue
    ELSE IF Len(date_str) = 1 /\ date_str[1].kind = "iso"
    THEN [found |-> TRUE, raised |-> FALSE, wall |-> date_str[1].wall,
          tzinfo |-> date_str[1].tzinfo]
    ELSE LET base_date == (today_wall \div MinutesPerDay) + BaseDays(date_str)
         IN IF TimeMatches(date_str) = {}
            THEN [found |-> TRUE, raised |-> FALSE,
                  wall |-> base_date * MinutesPerDay + 9 * 60,
                  tzinfo |-> "none"]
            ELSE LET first == CHOOSE i \in TimeMatches(date_str) :
                                 \A j \in TimeMatches(date_str) : i <= j
                     m == date_str[first]
                     hour == Hour24(m.hour, m.ampm)
                     minute == IF m.minute = NULL THEN 0 ELSE m.minute
                 IN IF hour > 23 \/ minute > 59 THEN DueRaised
                    ELSE [found |-> TRUE, raised |-> FALSE,
                          wall |-> base_date * MinutesPerDay + hour * 60 + minute,
                          tzinfo |-> "none"]

\* one call of _parse_due_date by a task whose user has the timezone offset
\* calls[p].timezone; the server's clock is server_offset minutes from UTC
ParseDueDateCall(p) ==
    /\ calls[p].pc = "parse"
    /\ calls' = [calls EXCEPT ![p] =
          [calls[p] EXCEPT
              !.pc = "done",
              !.due = parse_due_date(calls[p].date_str,
                                     now + calls[p].server_offset)]]
    /\ UNCHANGED <<user_settings, now, ticks, ncalls, sessions, ret,
                   transactions, extractor_calls, payments>>

Keywords == {"today", "tomorrow", "next week", "next month"}
DateTokens ==
    {Word(w) : w \in Keywords \cup {"at"}}
      \cup {Time(h, m, ap) : h \in {3, 12, 13}, m \in {NULL, 30},
                              ap \in {"am", "pm"}}

BoundedSeq(S, n) == UNION {[1..k -> S] : k \in 0..n}

\* UTC-3 (America/Sao_Paulo) and UTC, in minutes
TimezoneOffsets == {-180, 0}

\* 08:00 and 23:30 in UTC-3
ReferenceNows == {StartNow + 11 * 60, StartNow + 26 * 60 + 30}

InitDueDate ==
    /\ ticks = 0
    /\ ncalls = 0
    /\ sessions = << >>
    /\ ret = NoRet
    /\ transactions = [u \in Users |-> 0]
    /\ extractor_calls = 0
    /\ payments = << >>
    /\ user_settings = << >>
    /\ now \in ReferenceNows
    /\ \E date_str \in BoundedSeq(DateTokens, MaxDateTokens)
                          \cup {<<Iso(StartNow + 18 * 60, "utc")>>},
          tz \in TimezoneOffsets, server \in TimezoneOffsets :
          calls = [p \in Procs |->
              IF p = 1
              THEN [IdleCall EXCEPT !.op = "parse_due_date", !.pc = "parse",
                                    !.date_str = date_str, !.timezone = tz,
                                    !.server_offset = server]
              ELSE IdleCall]

NextDueDate == ParseDueDateCall(1)

SpecDueDate == InitDueDate /\ [][NextDueDate]_vars

(***************************************************************************)
(* Properties of the handlers (Spec)                                       *)
(***************************************************************************)
\* no row of user_settings carries telegram_id c
Unlinked(c) ==
    \A u \in DOMAIN user_settings : user_settings[u].telegram_id # c

\* C7: a route_message request for a channel id linked to no identity ends with
\* the must_register outcome (401 carrying the user_not_registered message);
\* it makes no consume call, does not invoke the Extractor, persists nothing
\* and creates no session for that channel id.
C7_UnknownChannelMustRegister ==
    \A p \in Procs :
        LET c == calls[p]
        IN (c.op = "route_message" /\ Unlinked(c.chan)) =>
              /\ c.pc \in {"auth", "lookup", "done"}
              /\ c.pc = "done" =>
                    (c.status = 401 /\ c.detail = "user_not_registered")
              /\ ~c.resolved /\ ~c.consumed /\ ~c.extracted /\ ~c.persisted
              /\ c.chan \notin DOMAIN sessions

\* the part of C7 that does not depend on the kind of the failure: the request
\* ends 401 and has no effect
UnknownChannelNoEffects ==
    \A p \in Procs :
        LET c == calls[p]
        IN (c.op = "route_message" /\ Unlinked(c.chan)) =>
              /\ c.pc \in {"auth", "lookup", "done"}
              /\ c.pc = "done" => c.status = 401
              /\ ~c.resolved /\ ~c.consumed /\ ~c.extracted /\ ~c.persisted
              /\ c.chan \notin DOMAIN sessions

\* C8: in a route_message request consume is attempted only once resolution
\* returned an identity linked to the channel id, the Extractor is invoked
\* only after consume returned success, and a row is persisted only in a
\* request whose consume returned success and whose Extractor ran.
C8_RouteMessageOrder ==
    [][\A p \in Procs :
        LET c == calls[p]
            d == calls'[p]
        IN d.op = "route_message" =>
            /\ (d.pc = "select" /\ c.pc # "select") =>
                  /\ c.pc \in {"auth", "lookup"}
                  /\ ~c.consumed /\ d.resolved
                  /\ d.user_id \in DOMAIN user_settings
                  /\ user_settings[d.user_id].telegram_id = d.chan
                  /\ d.chan \in DOMAIN sessions'
            /\ (d.extracted /\ ~c.extracted) =>
                  /\ c.resolved /\ c.consumed
                  /\ c.result.success
                  /\ extractor_calls' = extractor_calls + 1
            /\ extractor_calls' # extractor_calls =>
                  \E q \in Procs : calls'[q].extracted /\ ~calls[q].extracted
            /\ (d.persisted /\ ~c.persisted) =>
                  c.result.success /\ d.extracted
            /\ transactions' # transactions =>
                  \E q \in Procs : calls'[q].persisted /\ ~calls[q].persisted
      ]_vars

\* a route_message request that was charged 1 credit, ran the Extractor and
\* persisted the row of a found frame
C8_Witness ==
    \E p \in Procs :
        /\ calls[p].op = "route_message" /\ calls[p].pc = "done"
        /\ calls[p].status = 200
        /\ calls[p].result.success /\ calls[p].result.credits_used = 1
        /\ calls[p].extracted /\ calls[p].persisted
        /\ calls[p].frame = "found"
        /\ transactions[calls[p].user_id] = 1

C24_DecisionFromStoreOnly ==
    [][\A p \in Procs :
        LET c == calls[p]
            d == calls'[p]
        IN (SelectStep(p) /\ c.user_id \in DOMAIN user_settings) =>
             LET row == user_settings[c.user_id]
             IN /\ (d.pc = "credited" /\ d.result.is_premium) <=> row.is_premium
                /\ (d.pc = "credited" /\ d.result.error = "insufficient_credits")
                      <=> (~row.is_premium /\ row.freemium_credits < c.need)
                /\ d.pc = "update"
                      <=> (~row.is_premium /\ row.freemium_credits >= c.need)
                /\ ~row.is_premium => d.current_credits = row.freemium_credits
      ]_vars

\* a request refused for insufficient credits against a stored balance of 0
\* while the session of its channel still holds the balance 1 read before a
\* concurrent request consumed it
C24_Witness ==
    \E p \in Procs :
        /\ calls[p].op = "route_message" /\ calls[p].pc = "credited"
        /\ calls[p].result.error = "insufficient_credits"
        /\ calls[p].result.credits_available = 0
        /\ calls[p].chan \in DOMAIN sessions
        /\ sessions[calls[p].chan].user_id = calls[p].user_id
        /\ sessions[calls[p].chan].freemium_credits = 1
        /\ user_settings[calls[p].user_id].freemium_credits = 0

AuthStep == ncalls' = ncalls + 1 /\ calls'[1].lookups > 0
                /\ calls'[1].op \in {"handle_start", "get_user_data"}

\* C12: whenever check_authentication returns an authenticated identity for a
\* channel id, the sessions dict holds, when the call returns, an entry for
\* that channel id with that identity, authenticated and stamped now.
C12_SessionWrittenOnResolve ==
    [][(AuthStep /\ calls'[1].resolved) =>
          LET d == calls'[1]
          IN /\ d.chan \in DOMAIN sessions'
             /\ sessions'[d.chan].user_id = d.user_id
             /\ sessions'[d.chan].authenticated
             /\ sessions'[d.chan].last_activity = now
             /\ d.user_id \in DOMAIN user_settings'
             /\ user_settings'[d.user_id].telegram_id = d.chan
      ]_vars

\* a get_user_data call resolved by lookup whose identity is in the sessions
C12_Witness ==
    /\ calls[1].op = "get_user_data" /\ calls[1].resolved
    /\ calls[1].lookups = 1
    /\ calls[1].chan \in DOMAIN sessions
    /\ sessions[calls[1].chan].user_id = calls[1].user_id
    /\ calls[1].chan = "c2" /\ calls[1].user_id = "u2"

\* C13: a get_user_data call for a channel id whose session is present and not
\* older than the timeout returns the cached identity and makes no store or
\* auth lookup.
C13_CachedIdentityNoLookup ==
    [][(/\ ncalls' = ncalls + 1
        /\ calls'[1].op = "get_user_data"
        /\ calls'[1].chan \in DOMAIN sessions
        /\ now - sessions[calls'[1].chan].last_activity <= SessionTimeout) =>
          /\ calls'[1].lookups = 0
          /\ calls'[1].resolved
          /\ calls'[1].user_id = sessions[calls'[1].chan].user_id
      ]_vars

\* C14: check_authentication for an unlinked channel id with a claimed
\* supabase_user_id either links it, re-fetches the identity and handles it as
\* an already-linked one (authenticated, session written), or returns the
\* link_failed failure and creates no session.
C14_LinkOrLinkFailed ==
    [][(/\ AuthStep
        /\ calls'[1].op = "handle_start"
        /\ calls'[1].claimed # NoUser
        /\ Unlinked(calls'[1].chan)) =>
          LET d == calls'[1]
          IN \/ /\ d.resolved
                /\ d.user_id = d.claimed
                /\ d.claimed \in DOMAIN user_settings'
                /\ user_settings'[d.claimed].telegram_id = d.chan
                /\ d.chan \in DOMAIN sessions'
                /\ sessions'[d.chan].user_id = d.claimed
             \/ /\ ~d.resolved
                /\ d.auth_message = "link_failed"
                /\ d.chan \notin DOMAIN sessions'
                /\ user_settings' = user_settings
      ]_vars

\* C15: a get_user_data call whose lookup hit a store error or an auth-store
\* error ends as an internal error (500), not as a 401; the must_register
\* outcome is given only when the lookup ran without error.
C15_FailureKindReflectsCause ==
    \A p \in Procs :
        LET c == calls[p]
        IN (c.op = "get_user_data" /\ c.pc = "done" /\ c.lookups > 0) =>
              /\ c.fault \in {"db_error", "auth_error"} => c.status = 500
              /\ c.must_register => c.fault = "none"

\* C16: handle_start never raises: every call, whatever the outcome of the
\* resolution and whether or not the services are ready, returns a
\* {success, message} body (status 200).
C16_StartNeverRaises ==
    \A p \in Procs :
        (calls[p].op = "handle_start" /\ calls[p].pc = "done") =>
            calls[p].status = 200

\* C17: a register_user call for a channel id that some row already carries
\* fails and leaves user_settings (rows and channel mapping) and the sessions
\* as they were.
C17_RegisterLinkedFails ==
    [][(/\ ncalls' = ncalls + 1
        /\ calls'[1].op = "register_user"
        /\ ~Unlinked(calls'[1].chan)) =>
          /\ ~calls'[1].success
          /\ user_settings' = user_settings
          /\ sessions' = sessions
      ]_vars

\* a failed register_user call for c1, which u1 holds, made on behalf of
\* another identity while a session of c1 exists
C17_Witness ==
    /\ calls[1].op = "register_user" /\ calls[1].chan = "c1"
    /\ calls[1].claimed = "u2"
    /\ ~calls[1].success /\ calls[1].status = 500
    /\ "u1" \in DOMAIN user_settings
    /\ user_settings["u1"].telegram_id = "c1"
    /\ "c1" \in DOMAIN sessions /\ sessions["c1"].user_id = "u1"

(***************************************************************************)
(* Properties of linking (SpecLink)                                        *)
(***************************************************************************)
\* a row without its interaction timestamp
Mapping(row) == [row EXCEPT !.last_bot_interaction = 0]

\* at most one row per telegram_id
ChannelUnique(tbl) ==
    \A u, v \in DOMAIN tbl :
        (u # v /\ tbl[u].telegram_id = tbl[v].telegram_id) =>
            tbl[u].telegram_id = NoChan

C29_ResetKeepsNewAllotment ==
    [][(ncalls' = ncalls + 1 /\ calls'[1].op = "reset_monthly_credits") =>
          \A u \in DOMAIN user_settings :
              (/\ ~user_settings[u].is_premium
               /\ user_settings[u].freemium_credits =
                     NewRow(NoChan, FALSE, NULL).freemium_credits) =>
                 user_settings'[u].freemium_credits =
                     user_settings[u].freemium_credits
      ]_vars

(***************************************************************************)
(* Properties of reset against consume (SpecResetConsume)                  *)
(***************************************************************************)
\* C20: when one consume of u1 and one monthly reset that reset u1 have both
\* completed, u1's balance and reset date are those of one of the two
\* sequential orders: the reset allotment (consume, then reset) or the
\* allotment less the cost (reset, then consume), with the reset date
\* today + 30 days; the balance is never negative.
C20_ResetConsumeSerializable ==
    (/\ ncalls = 2
     /\ calls[1].op = "consume" /\ calls[1].pc = "credited"
     /\ calls[2].op = "reset_monthly_credits"
     /\ calls[2].affected_users = 1) =>
        /\ user_settings["u1"].freemium_credits \in
              {ResetCredits, ResetCredits - calls[1].need}
        /\ user_settings["u1"].freemium_credits >= 0
        /\ user_settings["u1"].credits_reset_date =
              CURRENT_DATE + ResetPeriodDays

\* C21: a monthly reset that runs right after another one, on the same date,
\* changes no row and reports zero affected users.
C21_ResetIdempotent ==
    [][(/\ ncalls' = ncalls + 1
        /\ calls'[1].op = "reset_monthly_credits"
        /\ calls[1].op = "reset_monthly_credits"
        /\ calls[1].today = CURRENT_DATE) =>
          /\ user_settings' = user_settings
          /\ calls'[1].affected_users = 0
      ]_vars

\* the second of two resets made at the same instant, the first of which reset
\* u1
C21_Witness ==
    /\ ncalls = 2 /\ ticks = 0
    /\ calls[1].op = "reset_monthly_credits"
    /\ calls[1].affected_users = 0
    /\ ~user_settings["u1"].is_premium
    /\ user_settings["u1"].freemium_credits = ResetCredits
    /\ user_settings["u1"].credits_reset_date = CURRENT_DATE + ResetPeriodDays

(***************************************************************************)
(* Properties of the Stripe webhook (SpecWebhook)                          *)
(***************************************************************************)
WebhookStep ==
    ncalls' = ncalls + 1 /\ calls'[1].op = "handle_stripe_webhook"

\* C22: a webhook with a valid signature for a completed checkout of a known
\* payment leaves the paying user's row premium until the payment's
\* valid_until, and every session of that user holds is_premium = TRUE.
C22_WebhookRefreshesSession ==
    [][(/\ WebhookStep
        /\ calls'[1].signature = "valid" /\ calls'[1].secret
        /\ calls'[1].event = "checkout.session.completed"
        /\ calls'[1].payment_id \in DOMAIN payments) =>
          LET pay == payments[calls'[1].payment_id]
          IN /\ pay.user_id \in DOMAIN user_settings'
             /\ user_settings'[pay.user_id].is_premium
             /\ user_settings'[pay.user_id].premium_until = pay.valid_until
             /\ \A c \in DOMAIN sessions' :
                   sessions'[c].user_id = pay.user_id =>
                      sessions'[c].is_premium
      ]_vars

\* C23: a webhook whose signature is missing or invalid, or that arrives while
\* no webhook secret is configured, is answered with a status of 400 or more
\* and changes no payment, no user_settings row and no session.
C23_BadSignatureRejected ==
    [][(/\ WebhookStep
        /\ calls'[1].signature # "valid" \/ ~calls'[1].secret) =>
          /\ calls'[1].status >= 400
          /\ payments' = payments
          /\ user_settings' = user_settings
          /\ sessions' = sessions
      ]_vars

(***************************************************************************)
(* Properties of MainAgent.route_message (SpecDispatch)                    *)
(***************************************************************************)
\* C30: a call classified TRANSACTION_SUMMARY runs get_summary and persists
\* nothing, one classified REMINDER_SUMMARY runs get_reminders and persists
\* nothing, TRANSACTION runs process_transaction and REMINDER runs
\* process_reminder.
C30_DispatchPerCategory ==
    \A p \in Procs :
        LET c == calls[p]
        IN c.op = "main_agent.route_message" =>
            /\ c.response = TRANSACTION_SUMMARY =>
                  (c.handler = "get_summary" /\ ~c.persisted)
            /\ c.response = REMINDER_SUMMARY =>
                  (c.handler = "get_reminders" /\ ~c.persisted)
            /\ c.response = TRANSACTION => c.handler = "process_transaction"
            /\ c.response = REMINDER => c.handler = "process_reminder"

(***************************************************************************)
(* Properties of _parse_due_date (SpecDueDate)                             *)
(***************************************************************************)
\* a finished call on a string that is not ISO-8601 and whose first clock time,
\* if it has one, is on the 12-hour clock
RelativeCall(c) ==
    /\ c.op = "parse_due_date" /\ c.pc = "done"
    /\ Len(c.date_str) >= 1
    /\ \A i \in 1..Len(c.date_str) : c.date_str[i].kind # "iso"
    /\ \A i \in 1..Len(c.date_str) :
          (/\ c.date_str[i].kind = "time"
           /\ \A j \in 1..(i - 1) : c.date_str[j].kind # "time") =>
             c.date_str[i].hour \in 1..12

\* the days the claims give for the keywords of a string
ExpectedDays(date_str) ==
    LET has(w) == \E i \in 1..Len(date_str) :
                     date_str[i].kind = "word" /\ date_str[i].word = w
    IN IF has("today") THEN 0
       ELSE IF has("tomorrow") THEN 1
       ELSE IF has("next week") THEN 7
       ELSE IF has("next month") THEN 30
       ELSE 0

\* the minutes after midnight the claims give for the clock time of a string
ExpectedClock(date_str) ==
    LET times == {i \in 1..Len(date_str) : date_str[i].kind = "time"}
    IN IF times = {} THEN 9 * 60
       ELSE LET t == date_str[CHOOSE i \in times : \A j \in times : i <= j]
                h == IF t.hour = 12 THEN (IF t.ampm = "am" THEN 0 ELSE 12)
                     ELSE IF t.ampm = "pm" THEN t.hour + 12 ELSE t.hour
            IN h * 60 + (IF t.minute = NULL THEN 0 ELSE t.minute)

\* C26: for a user in UTC-3 a relative expression is read as a date and clock
\* time in the user's timezone, counted from now in that timezone, and the
\* result is that instant in UTC (tomorrow at 3pm asked at 08:00-03:00 is
\* 18:00Z of the next day).
C26_DueDateInUserTimezone ==
    LET c == calls[1]
    IN (RelativeCall(c) /\ c.timezone = -180) =>
          /\ c.due.found /\ ~c.due.raised
          /\ c.due.tzinfo = "utc"
          /\ c.due.wall =
                (((now + c.timezone) \div MinutesPerDay)
                    + ExpectedDays(c.date_str)) * MinutesPerDay
                  + ExpectedClock(c.date_str) - c.timezone

\* C28: for a string that is not ISO-8601 the date is the reference date plus
\* 0 days for today or no keyword, 1 for tomorrow, 7 for next week, 30 for next
\* month, the first keyword in that order winning, and the clock time is the
\* one of the first h[:mm] am/pm match (12am is 00, 12pm is 12, other pm hours
\* add 12) or 09:00 without a match.
C28_RelativeDateAndClock ==
    LET c == calls[1]
    IN RelativeCall(c) =>
          /\ c.due.found /\ ~c.due.raised
          /\ c.due.wall \div MinutesPerDay =
                ((now + c.server_offset) \div MinutesPerDay)
                   + ExpectedDays(c.date_str)
          /\ c.due.wall % MinutesPerDay = ExpectedClock(c.date_str)

\* 'next month ... 12:30pm' with 'today' absent and 'tomorrow' absent
C28_Witness ==
    /\ calls[1].op = "parse_due_date" /\ calls[1].pc = "done"
    /\ calls[1].date_str = <<Word("next month"), Time(12, 30, "pm")>>
    /\ calls[1].server_offset = 0
    /\ calls[1].due.found
    /\ calls[1].due.wall =
          ((now \div MinutesPerDay) + 30) * MinutesPerDay + 12 * 60 + 30

====
